---- MODULE Spec2Model ----
(***************************************************************************)
(* The projection engine of the event-log toolkit: PostgresProjector and   *)
(* PostgresReadModelProjector (run loop, stream positions, the advisory    *)
(* lock in locked_until, the remote-control status and the checkpoint      *)
(* writes), against one control row and a small event store.               *)
(*                                                                         *)
(* Every method of the projector is an operator from a "world" (the        *)
(* projector's fields, the control row, the event store, the read model,   *)
(* the clock and the error raised so far) to the world after the call.     *)
(* An action of the state machine is the code between two suspension       *)
(* points that matter to another actor, built from these operators.        *)
(***************************************************************************)
EXTENDS Integers, Sequences, FiniteSets, TLC

VARIABLES
  projector,    \* [Runners -> the fields of one projector instance]
  projection,   \* the control row of the projection (table "projections")
  eventStore,   \* [stream name -> sequence of event names]; event no = index
  readModel,    \* [Runners -> the read model of a read-model projector]
  now,          \* wall clock, in ms
  faults,       \* number of store/handler failures injected so far
  commands,     \* number of operator commands issued so far
  runs,         \* number of run() calls so far
  holder,       \* history: the runner whose write set the lock last (0: nobody)
  checkpoint,   \* history: what the last successful persist() wrote
  handled       \* history: events for which a handler invocation completed

vars == <<projector, projection, eventStore, readModel, now, faults, commands, runs,
          holder, checkpoint, handled>>

---------------------------------------------------------------------------
(* Bounds of the model *)

MaxEvents == 2
MaxEmitted == 1
MaxRuns == 2
MaxFaults == 1
MaxCommands == 1
MaxCalls == 3
BlockEvents == 3
TickMs == 500
MaxNow == 1500
persistBlockSize == 2

(* Program constants *)

lockTimeoutMs == 1000
updateLockThreshold == 0

Runners == {1, 2}
ProjectionName == "p"
Streams == {"s", "t"}
StreamOrder == <<"p", "s", "t">>
EventNames == {"A", "B"}
Registered == {"A"}
Matchers == {"m1", "m2"}

Null == -1
EmptyMap == [x \in {} |-> 0]

IDLE == "idle"
RUNNING == "running"
STOPPING == "stopping"
DELETING == "deleting"
DELETING_INCL_EMITTED_EVENTS == "deleting incl emitted events"
RESETTING == "resetting"
ProjectionStatus == {IDLE, RUNNING, STOPPING, DELETING, DELETING_INCL_EMITTED_EVENTS, RESETTING}

---------------------------------------------------------------------------
(* Values *)

\* The projection state T: an object.  base tells which object the fold started
\* from (the value of initThunk, or the '{}' of a freshly inserted row); log is
\* the fold itself, the events the handlers were applied to, in order.
UndefinedState == [def |-> FALSE, base |-> "empty", log |-> <<>>]
EmptyObject == [def |-> TRUE, base |-> "empty", log |-> <<>>]
InitState == [def |-> TRUE, base |-> "init", log |-> <<>>]

\* initHandler(): the user's thunk returns the same initial value on every call.
initHandler == InitState

\* A handler (whenAny's, or when's handler for event.name) folds the event into
\* the state; cloneDeep of its result is the same value.
handler(st, e) == [st EXCEPT !.log = Append(@, <<e.stream, e.no>>)]

\* JSON.stringify(this.state || {}) read back by the store.
toJSON(st) == IF st.def THEN st ELSE EmptyObject

\* { ...a, ...b }
Spread(a, b) ==
  [k \in (DOMAIN a) \cup (DOMAIN b) |-> IF k \in DOMAIN b THEN b[k] ELSE a[k]]

Zeros(S) == [k \in S |-> 0]

NoRow == [exists |-> FALSE, position |-> EmptyMap, state |-> EmptyObject,
          status |-> IDLE, locked_until |-> Null]

NoCheckpoint == [def |-> FALSE, position |-> EmptyMap, state |-> EmptyObject]

createLockUntil(from) ==
  LET ms == lockTimeoutMs % 1000
  IN  from + (lockTimeoutMs - ms) + ms

\* A shouldUpdateLock that forgets the updateLockThreshold === 0 case.
shouldUpdateLockWhenDue(p, t) ==
  IF p.lastLockUpdate = Null
  THEN TRUE
  ELSE updateLockThreshold > 0 /\ p.lastLockUpdate + updateLockThreshold <= t

shouldUpdateLock(p, t) ==
  IF p.lastLockUpdate = Null \/ updateLockThreshold = 0
  THEN TRUE
  ELSE p.lastLockUpdate + updateLockThreshold <= t

---------------------------------------------------------------------------
(* Worlds and errors *)

World(r, fault) ==
  [p |-> projector[r], row |-> projection, es |-> eventStore, rm |-> readModel[r],
   now |-> now, ck |-> checkpoint, handled |-> handled, holder |-> holder, self |-> r,
   fault |-> fault, hit |-> FALSE, err |-> "none"]

Throw(w, e) == [w EXCEPT !.err = e]

\* The injected failure strikes the call in progress.
Fail(w) == [w EXCEPT !.err = "storeError", !.fault = "none", !.hit = TRUE]

\* The next call of a method body: skipped when an error is on its way up.  (The
\* world is bound once, as a value.)
Then(w, Op(_)) ==
  CHOOSE y \in {IF x.err # "none" THEN x ELSE Op(x) : x \in {w}} : TRUE

\* History: a write of runner w.self reached the control row.
Wrote(w) == [w EXCEPT !.p.wrote = w.p.lostLease]

\* History: the write set locked_until to a time (not to NULL).
Locked(w) == [w EXCEPT !.holder = w.self]

---------------------------------------------------------------------------
(* The event store and the projection manager (interfaces of the projector) *)

hasStream(es, name) == name \in DOMAIN es

createStream(es, name) == Spread(es, [k \in {name} |-> <<>>])

deleteStreamOf(es, name) == [k \in (DOMAIN es) \ {name} |-> es[k]]

appendTo(es, name, names) == [es EXCEPT ![name] = @ \o names]

\* The events of one stream from fromNumber on (inclusive), in event.no order.
loadFrom(es, name, fromNumber) ==
  IF name \in DOMAIN es
  THEN [i \in 1..(IF Len(es[name]) >= fromNumber THEN Len(es[name]) - fromNumber + 1 ELSE 0) |->
          [stream |-> name, no |-> fromNumber + i - 1, name |-> es[name][fromNumber + i - 1]]]
  ELSE <<>>

RECURSIVE mergeFrom(_, _, _)
mergeFrom(es, request, i) ==
  IF i > Len(StreamOrder) THEN <<>>
  ELSE (IF StreamOrder[i] \in DOMAIN request
        THEN loadFrom(es, StreamOrder[i], request[StreamOrder[i]])
        ELSE <<>>) \o mergeFrom(es, request, i + 1)

\* eventStore.mergeAndLoad(...requests)
mergeAndLoadEvents(es, request) == mergeFrom(es, request, 1)

\* manager.fetchAllStreamNames(); the read-model projector's own query leaves out
\* the names that begin with '$' (there are none here).
fetchAllStreamNames(es) == DOMAIN es

\* manager.fetchProjectionStatus(name): the status column of the control row.
fetchProjectionStatus(w) ==
  IF w.fault = "fetchProjectionStatus" \/ ~w.row.exists THEN "throws" ELSE w.row.status

\* manager.idleProjection(name)
idleProjection(w) ==
  IF ~w.row.exists THEN Throw(w, "projectionNotFound")
  ELSE [w EXCEPT !.row.status = IDLE]

---------------------------------------------------------------------------
(* The control-row queries of the projector *)

projectionExists(w) == w.row.exists

createProjection(w) ==
  [w EXCEPT !.row = [exists |-> TRUE, position |-> EmptyMap, state |-> EmptyObject,
                     status |-> w.p.status, locked_until |-> Null],
            !.p.created = TRUE]

\* UPDATE ... WHERE name = $3 AND (locked_until IS NULL OR locked_until < $4);
\* the row count is not looked at.
lockIsFree(row, t) == row.locked_until = Null \/ row.locked_until < t

acquireLock(w) ==
  LET got == w.row.exists /\ lockIsFree(w.row, w.now)
      w1 == IF got
            THEN Locked([w EXCEPT !.row.locked_until = createLockUntil(w.now),
                                  !.row.status = RUNNING])
            ELSE w
  IN  [w1 EXCEPT !.p.status = RUNNING,
                 !.p.lastLockUpdate = w.now,
                 !.p.calledAcquire = TRUE,
                 !.p.lostLease = /\ w.row.exists
                                 /\ w.row.locked_until # Null
                                 /\ w.row.locked_until > w.now
                                 /\ w.holder \notin {0, w.self}]

updateLock(w) ==
  IF shouldUpdateLock(w.p, w.now) = FALSE THEN w
  ELSE IF w.fault = "updateLock" THEN Fail(w)
  ELSE LET w1 == IF w.row.exists
                 THEN Locked(Wrote([w EXCEPT !.row.locked_until = createLockUntil(w.now)]))
                 ELSE w
       IN  [w1 EXCEPT !.p.lastLockUpdate = w.now]

releaseLock(w) ==
  LET w1 == IF w.row.exists
            THEN Wrote([w EXCEPT !.row.locked_until = Null, !.row.status = IDLE])
            ELSE w
  IN  w1

\* The row persist() writes: lock, state and position in one UPDATE.
persistedRow(row, p, t) ==
  [row EXCEPT !.locked_until = createLockUntil(t),
              !.state = toJSON(p.state),
              !.position = p.streamPositions]

\* readModel.persist(): what the handlers did so far is externalised.
readModelPersist(w) ==
  IF w.fault = "readModel" THEN Fail(w)
  ELSE [w EXCEPT !.rm.persisted = w.handled]

\* The UPDATE of persist() and its row count.
persistRow(w) ==
  IF w.fault = "persist" THEN Fail(w)
  ELSE IF ~w.row.exists THEN Throw(w, "projectionNotFound")
  ELSE Locked(Wrote([w EXCEPT !.row = persistedRow(w.row, w.p, w.now),
                       !.ck = [def |-> TRUE, position |-> w.p.streamPositions,
                               state |-> toJSON(w.p.state)]]))

\* persist(): the read-model projector awaits readModel.persist() first.
persist(w) ==
  IF w.p.variant = "readModel"
  THEN Then(readModelPersist(w), persistRow)
  ELSE persistRow(w)

load(w) ==
  IF w.fault = "load" THEN Fail(w)
  ELSE IF ~w.row.exists THEN Throw(w, "projectionNotFound")
  ELSE [w EXCEPT !.p.streamPositions = Spread(w.p.streamPositions, w.row.position),
                 !.p.state = w.row.state]

prepareStreamPosition(w) ==
  IF w.p.query.all /\ w.fault = "fetchAllStreamNames" THEN Fail(w)
  ELSE LET fromAll == IF w.p.query.all THEN Zeros(fetchAllStreamNames(w.es)) ELSE EmptyMap
           streamPositions == IF w.p.query.streams # {} THEN Zeros(w.p.query.streams)
                              ELSE fromAll
       IN  [w EXCEPT !.p.streamPositions = Spread(streamPositions, w.p.streamPositions)]

\* A fetchRemoteStatus whose catch block gives up: a failed read counts as a
\* request to stop.
fetchRemoteStatusStopsOnError(w) ==
  IF fetchProjectionStatus(w) = "throws" THEN STOPPING ELSE fetchProjectionStatus(w)

\* The status the projector acts on: RUNNING when the read fails.
fetchRemoteStatus(w) ==
  IF fetchProjectionStatus(w) = "throws" THEN RUNNING ELSE fetchProjectionStatus(w)

\* The world after the status read (an injected failure of the read is used up).
afterFetch(w) ==
  IF w.fault = "fetchProjectionStatus"
  THEN [w EXCEPT !.fault = "none", !.hit = TRUE]
  ELSE w

\* startAgain's UPDATE names parameter $4 and binds three values: the store
\* rejects the statement, whatever the row.
startAgain(w) ==
  Throw([w EXCEPT !.p.isStopped = FALSE], "queryError")

---------------------------------------------------------------------------
(* stop, delete, reset *)

stop(w) ==
  LET w1 == persist(w)
      w2 == Then(w1, LAMBDA x : idleProjection([x EXCEPT !.p.isStopped = TRUE]))
  IN  Then(w2, LAMBDA x : [x EXCEPT !.p.status = IDLE])

\* delete(flag): flag is deleteEmittedEvents on the plain projector and
\* deleteProjection on the read-model projector.
deleteFlagged(w) ==
  IF w.p.variant = "plain"
  THEN IF w.fault = "deleteStream" THEN Fail(w)
       ELSE [w EXCEPT !.es = deleteStreamOf(w.es, ProjectionName)]
  ELSE IF w.fault = "readModel" THEN Fail(w)
       ELSE [w EXCEPT !.rm.initialized = FALSE, !.rm.deleted = TRUE, !.rm.persisted = {}]

delete(w, flag) ==
  IF ~w.row.exists THEN Throw(w, "projectionNotFound")
  ELSE LET w1 == [w EXCEPT !.row = NoRow, !.ck = NoCheckpoint]
           w2 == IF flag THEN deleteFlagged(w1) ELSE w1
       IN  Then(w2, LAMBDA x :
             [x EXCEPT !.p.isStopped = TRUE,
                       !.p.state = IF x.p.initSet THEN initHandler ELSE UndefinedState,
                       !.p.streamPositions = EmptyMap])

\* this.delete() with the default of the parameter
deleteDefault(p) == IF p.variant = "plain" THEN FALSE ELSE TRUE

\* A reset() whose UPDATE leaves the status column as it finds it.
resetRowKeepsStatus(row, p) ==
  [row EXCEPT !.state = toJSON(p.state), !.position = p.streamPositions]

\* The row reset() writes.
resetRow(row, p) ==
  [row EXCEPT !.status = IDLE, !.state = toJSON(p.state), !.position = p.streamPositions]

reset(w) ==
  LET w1 == [w EXCEPT !.p.streamPositions = EmptyMap]
      w2 == IF w.p.variant = "readModel"
            THEN IF w.fault = "readModel" THEN Fail(w1)
                 ELSE [w1 EXCEPT !.rm.persisted = {}]
            ELSE w1
      w3 == Then(w2, LAMBDA x :
              [x EXCEPT !.p.state = IF x.p.initSet THEN initHandler ELSE UndefinedState])
      w4 == Then(w3, LAMBDA x :
              IF ~x.row.exists THEN Throw(x, "projectionNotFound")
              ELSE [x EXCEPT !.row = resetRow(x.row, x.p), !.ck = NoCheckpoint])
  IN  Then(w4, LAMBDA x :
        IF x.fault = "deleteStream"
        THEN [x EXCEPT !.fault = "none", !.hit = TRUE]
        ELSE [x EXCEPT !.es = deleteStreamOf(x.es, ProjectionName)])

---------------------------------------------------------------------------
(* The loop body *)

\* A block check that persists and reads the status but never sets isStopped.
persistAndFetchRemoteStatusKeepsGoing(w) ==
  IF w.p.eventCounter # persistBlockSize THEN w
  ELSE LET w1 == persist(w)
       IN  Then(w1, LAMBDA x :
             afterFetch([x EXCEPT !.p.eventCounter = 0, !.p.status = fetchRemoteStatus(x)]))

persistAndFetchRemoteStatusWhenBlockSizeThresholdReached(w) ==
  IF w.p.eventCounter # persistBlockSize THEN w
  ELSE LET w1 == persist(w)
       IN  Then(w1, LAMBDA x :
             LET st == fetchRemoteStatus(x)
                 y == afterFetch([x EXCEPT !.p.eventCounter = 0, !.p.status = st])
             IN  IF st \in {IDLE, RUNNING} THEN y
                 ELSE [y EXCEPT !.p.isStopped = TRUE])

\* progressEvent(event.name): whether a handler takes the event.
progressEvent(p, name) == p.handlerSet \/ name \in p.handlers

\* The handler call of one iteration: the state is replaced by the handler's result.
invokeHandler(w, e) ==
  IF w.fault = "handler" THEN Fail(w)
  ELSE [w EXCEPT !.p.state = handler(w.p.state, e),
                 !.p.delivered = Append(@, <<e.stream, e.no>>),
                 !.handled = @ \cup {<<e.stream, e.no>>}]

\* The position the iteration records for the event's stream.
advance(streamPositions, e) == Spread(streamPositions, [k \in {e.stream} |-> e.no])

\* One iteration of handleStreamWithSingleHandler
handleWithSingleHandler(w, e) ==
  LET w1 == [w EXCEPT !.p.streamPositions = advance(@, e),
                      !.p.eventCounter = @ + 1]
  IN  Then(invokeHandler(w1, e), persistAndFetchRemoteStatusWhenBlockSizeThresholdReached)

\* An iteration that goes on to the next event at once when no handler is
\* registered for the event's name.
handleWithHandlersSkipsCheck(w, e) ==
  LET w1 == [w EXCEPT !.p.streamPositions = advance(@, e),
                      !.p.eventCounter = @ + 1]
  IN  IF ~progressEvent(w.p, e.name)
      THEN w1
      ELSE invokeHandler(w1, e)

\* One iteration of handleStreamWithHandlers
handleWithHandlers(w, e) ==
  LET w1 == [w EXCEPT !.p.streamPositions = advance(@, e),
                      !.p.eventCounter = @ + 1]
  IN  IF ~progressEvent(w.p, e.name)
      THEN persistAndFetchRemoteStatusWhenBlockSizeThresholdReached(w1)
      ELSE invokeHandler(w1, e)

\* The switch on the remote status, before the loop and at the end of a pass;
\* atStart: the STOPPING case of the first switch loads before it stops.
dispatch(w, atStart) ==
  LET st == fetchRemoteStatus(w)
      w1 == afterFetch(IF atStart /\ st \notin {IDLE, RUNNING}
                       THEN [w EXCEPT !.p.startStatus = st] ELSE w)
      seen == [w1 EXCEPT !.p.observedDelete = st]
  IN  CASE st = STOPPING -> IF atStart THEN Then(load(w1), stop) ELSE stop(w1)
        [] st = DELETING -> delete(seen, deleteDefault(w.p))
        [] st = DELETING_INCL_EMITTED_EVENTS -> delete(seen, TRUE)
        [] st = RESETTING -> Then(reset(w1), LAMBDA x : [x EXCEPT !.p.didReset = TRUE])
        [] OTHER -> w1

\* From the existence check to the statement before the try.
ensureAndLoad(w) ==
  LET w1 == IF projectionExists(w) = FALSE THEN createProjection(w) ELSE w
      w2 == acquireLock(w1)
      w3 == IF w2.p.variant = "readModel" /\ ~w2.rm.initialized
            THEN IF w2.fault = "readModel" THEN Fail(w2)
                 ELSE [w2 EXCEPT !.rm.initialized = TRUE]
            ELSE w2
      w4 == Then(w3, prepareStreamPosition)
      w5 == Then(w4, load)
  IN  Then(w5, LAMBDA x : [x EXCEPT !.p.isStopped = FALSE])

\* The request of a pass: one entry per key of streamPositions.
mergeRequest(streamPositions) ==
  [k \in DOMAIN streamPositions |-> streamPositions[k] + 1]

mergeAndLoad(w) ==
  IF w.fault = "mergeAndLoad" THEN Fail(w)
  ELSE [w EXCEPT !.p.request = mergeRequest(w.p.streamPositions),
                 !.p.pending = mergeAndLoadEvents(w.es, mergeRequest(w.p.streamPositions)),
                 !.p.loads = IF @ < 2 THEN @ + 1 ELSE @]

\* An end of pass that refreshes the lock and never persists.
endOfPassRefreshOnly(w) ==
  Then(updateLock(w), LAMBDA x : [x EXCEPT !.p.eventCounter = 0])

\* After the event stream is drained: refresh the lock or persist.
endOfPass(w) ==
  LET w1 == IF w.p.eventCounter = 0 THEN updateLock(w) ELSE persist(w)
  IN  Then(w1, LAMBDA x : [x EXCEPT !.p.eventCounter = 0])

\* A loop condition that looks at keepRunning only.
loopAgainWhileKeepRunning(p) == p.keepRunning

\* while (keepRunning && !this.isStopped)
loopAgain(p) == p.keepRunning /\ ~p.isStopped

---------------------------------------------------------------------------
(* The state machine *)

FaultPoints == {"load", "persist", "updateLock", "mergeAndLoad", "handler",
                "deleteStream", "readModel", "fetchAllStreamNames",
                "fetchProjectionStatus"}

\* What a run remembers of the control row it started with.
RowAtStart(row) == [exists |-> row.exists, position |-> row.position, state |-> row.state]

\* A configured projector instance, before its first run: init(), one from*()
\* and one when*() were called on it.
NewProjector(variant, handlerMode, query) ==
  [variant |-> variant, handlerMode |-> handlerMode, query |-> query, initSet |-> TRUE,
   handlerSet |-> handlerMode = "single", handlersSet |-> handlerMode = "named",
   handlers |-> IF handlerMode = "named" THEN Registered ELSE {},
   matchers |-> [k \in query.streams |-> "m1"],
   \* history of the builder calls
   fromCalls |-> 1, calls |-> 0, lastCall |-> "none", error |-> "none",
   state |-> initHandler, streamPositions |-> EmptyMap, isStopped |-> FALSE,
   eventCounter |-> 0, status |-> IDLE, lastLockUpdate |-> Null,
   pc |-> "idle", keepRunning |-> FALSE, pending |-> <<>>,
   \* the UPDATE of a releaseLock() that run() did not wait for is in flight
   releasing |-> FALSE,
   \* history: a stop() called from outside completed during the current run
   stopCalled |-> FALSE,
   \* history of the current run
   result |-> "none", caught |-> FALSE, prevFailed |-> FALSE,
   calledAcquire |-> FALSE, lostLease |-> FALSE, wrote |-> FALSE,
   created |-> FALSE, delivered |-> <<>>, request |-> EmptyMap, loads |-> 0,
   startStatus |-> "none", observedDelete |-> "none", didReset |-> FALSE,
   startRow |-> RowAtStart(NoRow)]

FromStreams(S) == [all |-> FALSE, streams |-> S]
FromAll == [all |-> TRUE, streams |-> {}]

NewReadModel == [initialized |-> FALSE, deleted |-> FALSE, persisted |-> {}]

InitCommon ==
  /\ projection = NoRow
  /\ eventStore = [k \in Streams |-> <<>>]
  /\ readModel = [r \in Runners |-> NewReadModel]
  /\ now = 0
  /\ faults = 0
  /\ commands = 0
  /\ runs = 0
  /\ holder = 0
  /\ checkpoint = NoCheckpoint
  /\ handled = {}

\* One projector instance (runner 1) in any configuration.
Init ==
  /\ InitCommon
  /\ \E variant \in {"plain", "readModel"}, handlerMode \in {"single", "named"},
        query \in {FromStreams({"s"}), FromStreams({"s", "t"})} :
       projector = [r \in Runners |-> NewProjector(variant, handlerMode, query)]

\* The world w is what the step of runner r leaves behind.
Commit(r, w, fault) ==
  /\ fault = "none" \/ (faults < MaxFaults /\ w.hit)
  /\ projector' = [projector EXCEPT ![r] = w.p]
  /\ projection' = w.row
  /\ eventStore' = w.es
  /\ readModel' = [readModel EXCEPT ![r] = w.rm]
  /\ faults' = IF w.hit THEN faults + 1 ELSE faults
  /\ holder' = w.holder
  /\ checkpoint' = w.ck
  /\ handled' = w.handled
  /\ UNCHANGED <<now, commands>>

\* run() rejects: an error outside the try block.
Rejected(w) ==
  [w EXCEPT !.p.pc = "idle", !.p.result = "rejected", !.p.pending = <<>>,
            !.p.didReset = FALSE]

\* An error inside the try block: logged, then the finally block.
Caught(w) ==
  [w EXCEPT !.p.pc = "release", !.p.caught = TRUE, !.p.pending = <<>>,
            !.p.didReset = FALSE]

At(w, pc) == [w EXCEPT !.p.pc = pc]

\* A head of run() without the check of the state.
preflightHandlerOnly(p) ==
  IF ~p.handlerSet /\ ~p.handlersSet THEN "noHandler" ELSE "none"

\* The two checks at the head of run(): the error raised, if any.
preflight(p) ==
  IF ~p.handlerSet /\ ~p.handlersSet THEN "noHandler"
  ELSE IF ~p.state.def THEN "stateWasNotInitialised"
  ELSE "none"

\* run(keepRunning): the two configuration checks.
Run(r, keepRunning) ==
  /\ projector[r].pc = "idle"
  /\ runs < MaxRuns
  /\ runs' = runs + 1
  /\ LET p == projector[r]
         w == World(r, "none")
     IN  IF preflight(p) # "none"
         THEN Commit(r, [w EXCEPT !.p.result = "rejected", !.p.error = preflight(p),
                                  !.p.lastCall = "run"], "none")
         ELSE Commit(r, [w EXCEPT !.p = [NewProjector(p.variant, p.handlerMode, p.query)
                                     EXCEPT !.initSet = p.initSet,
                                            !.handlerSet = p.handlerSet,
                                            !.handlersSet = p.handlersSet,
                                            !.handlers = p.handlers,
                                            !.matchers = p.matchers,
                                            !.fromCalls = p.fromCalls,
                                            !.calls = p.calls,
                                            !.lastCall = "run",
                                            !.state = p.state,
                                            !.streamPositions = p.streamPositions,
                                            !.isStopped = p.isStopped,
                                            !.eventCounter = p.eventCounter,
                                            !.status = p.status,
                                            !.lastLockUpdate = p.lastLockUpdate,
                                            !.releasing = p.releasing,
                                            !.pc = "pre",
                                            !.keepRunning = keepRunning,
                                            !.prevFailed = p.caught,
                                            !.startRow = RowAtStart(projection)]], "none")

\* The first switch on the remote status.
PreTransition(r, fault) ==
  /\ projector[r].pc = "pre"
  /\ LET w == dispatch(World(r, fault), TRUE)
     IN  Commit(r, IF w.err # "none" THEN Rejected(w)
                   ELSE IF w.p.didReset THEN At(w, "preReset")
                   ELSE At(w, "ensure"), fault)
  /\ UNCHANGED runs

\* reset() has returned in the first switch.
AfterPreReset(r) ==
  /\ projector[r].pc = "preReset"
  /\ LET w0 == [World(r, "none") EXCEPT !.p.didReset = FALSE]
         w == IF w0.p.keepRunning THEN startAgain(w0) ELSE w0
     IN  Commit(r, IF w.err # "none" THEN Rejected(w) ELSE At(w, "ensure"), "none")
  /\ UNCHANGED runs

\* projectionExists / createProjection / acquireLock / prepareStreamPosition / load
Ensure(r, fault) ==
  /\ projector[r].pc = "ensure"
  /\ LET w == ensureAndLoad(World(r, fault))
     IN  Commit(r, IF w.err # "none" THEN Rejected(w) ELSE At(w, "loop"), fault)
  /\ UNCHANGED runs

\* The mergeAndLoad of a pass.
MergeLoad(r, fault) ==
  /\ projector[r].pc = "loop"
  /\ LET w == mergeAndLoad(World(r, fault))
     IN  Commit(r, IF w.err # "none" THEN Caught(w)
                   ELSE IF w.p.pending = <<>> THEN At(w, "endpass")
                   ELSE At(w, "handle"), fault)
  /\ UNCHANGED runs

\* One iteration of the for-await loop over the event stream.
HandleEvent(r, fault) ==
  /\ projector[r].pc = "handle"
  /\ LET w0 == World(r, fault)
         e == Head(w0.p.pending)
         w1 == [w0 EXCEPT !.p.pending = Tail(@)]
         w == IF w1.p.handlerSet
              THEN handleWithSingleHandler(w1, e)
              ELSE handleWithHandlers(w1, e)
     IN  Commit(r, IF w.err # "none" THEN Caught(w)
                   ELSE IF w.p.isStopped \/ w.p.pending = <<>>
                        THEN [At(w, "endpass") EXCEPT !.p.pending = <<>>]
                   ELSE w, fault)
  /\ UNCHANGED runs

\* The end of a pass: updateLock or persist, the second switch on the remote
\* status, prepareStreamPosition and the loop condition.
EndPass(r, fault) ==
  /\ projector[r].pc = "endpass"
  /\ LET w1 == endOfPass(World(r, fault))
         w2 == Then(w1, LAMBDA x : dispatch(x, FALSE))
         w3 == IF w2.err = "none" /\ w2.p.didReset THEN w2 ELSE Then(w2, prepareStreamPosition)
     IN  Commit(r, IF w3.err # "none" THEN Caught(w3)
                   ELSE IF w3.p.didReset THEN At(w3, "passReset")
                   ELSE IF loopAgain(w3.p) THEN At(w3, "loop")
                   ELSE At(w3, "release"), fault)
  /\ UNCHANGED runs

\* reset() has returned in the second switch.
AfterPassReset(r, fault) ==
  /\ projector[r].pc = "passReset"
  /\ LET w0 == [World(r, fault) EXCEPT !.p.didReset = FALSE]
         w1 == IF w0.p.keepRunning THEN startAgain(w0) ELSE w0
         w == Then(w1, prepareStreamPosition)
     IN  Commit(r, IF w.err # "none" THEN Caught(w)
                   ELSE IF loopAgain(w.p) THEN At(w, "loop")
                   ELSE At(w, "release"), fault)
  /\ UNCHANGED runs

\* finally { this.releaseLock() }: the UPDATE is applied before the instance is
\* used again (ReleaseUnawaited and ReleaseLands are the other order).
Release(r) ==
  /\ projector[r].pc = "release"
  /\ LET w == releaseLock(World(r, "none"))
     IN  Commit(r, [w EXCEPT !.p.pc = "idle",
                             !.p.result = IF w.p.caught THEN "caught" ELSE "returned"], "none")
  /\ UNCHANGED runs

\* emit(event) called by a handler: the stream named after the projection.
Emit(r) ==
  /\ projector[r].pc = "handle"
  /\ IF hasStream(eventStore, ProjectionName)
     THEN Len(eventStore[ProjectionName]) < MaxEmitted
     ELSE TRUE
  /\ eventStore' = appendTo(IF hasStream(eventStore, ProjectionName) THEN eventStore
                            ELSE createStream(eventStore, ProjectionName),
                            ProjectionName, <<"A">>)
  /\ UNCHANGED <<projector, projection, readModel, now, faults, commands, runs,
                 holder, checkpoint, handled>>

TotalEvents == Len(eventStore["s"]) + Len(eventStore["t"])

\* A producer appends an event to a stream.  A catch-all handler does not look
\* at the event's name, so one name stands for all of them there.
Produce(stream, name) ==
  /\ TotalEvents < MaxEvents
  /\ name = "A" \/ \E r \in Runners : projector[r].handlersSet
  /\ eventStore' = appendTo(eventStore, stream, <<name>>)
  /\ UNCHANGED <<projector, projection, readModel, now, faults, commands, runs,
                 holder, checkpoint, handled>>

\* The operator's command: the projection manager writes the status column.
OperatorSet(st) ==
  /\ projection.exists
  /\ projection.status # st
  /\ commands < MaxCommands
  /\ commands' = commands + 1
  /\ projection' = [projection EXCEPT !.status = st]
  /\ UNCHANGED <<projector, eventStore, readModel, now, faults, runs,
                 holder, checkpoint, handled>>

Tick ==
  /\ now + TickMs <= MaxNow
  /\ now' = now + TickMs
  /\ UNCHANGED <<projector, projection, eventStore, readModel, faults, commands, runs,
                 holder, checkpoint, handled>>

Step(r) ==
  \/ \E keepRunning \in BOOLEAN : Run(r, keepRunning)
  \/ \E fault \in {"none", "load", "persist", "deleteStream", "readModel", "fetchProjectionStatus"} :
       PreTransition(r, fault)
  \/ AfterPreReset(r)
  \/ \E fault \in {"none", "load", "readModel"} : Ensure(r, fault)
  \/ \E fault \in {"none", "mergeAndLoad"} : MergeLoad(r, fault)
  \/ \E fault \in {"none", "handler", "persist", "readModel", "fetchProjectionStatus"} :
       HandleEvent(r, fault)
  \/ \E fault \in {"none", "persist", "updateLock", "deleteStream", "readModel",
                   "fetchProjectionStatus"} : EndPass(r, fault)
  \/ AfterPassReset(r, "none")
  \/ Release(r)
  \/ Emit(r)

Environment ==
  \/ \E stream \in Streams, name \in EventNames : Produce(stream, name)
  \/ \E st \in {STOPPING, DELETING, DELETING_INCL_EMITTED_EVENTS, RESETTING} : OperatorSet(st)

Next == Step(1) \/ Environment

Spec == Init /\ [][Next]_vars

---------------------------------------------------------------------------
(* Two projector instances that share the projection name: no failures, no  *)
(* operator; the clock moves, so a lease can be live or expired.            *)

InitTwo ==
  /\ InitCommon
  /\ projector = [r \in Runners |-> NewProjector("plain", "single", FromStreams({"s"}))]

StepTwo(r) ==
  \/ \E keepRunning \in BOOLEAN : Run(r, keepRunning)
  \/ PreTransition(r, "none")
  \/ Ensure(r, "none")
  \/ MergeLoad(r, "none")
  \/ HandleEvent(r, "none")
  \/ EndPass(r, "none")
  \/ Release(r)

NextTwo ==
  \/ \E r \in Runners : StepTwo(r)
  \/ \E name \in EventNames : Produce("s", name)
  \/ Tick

SpecTwo == InitTwo /\ [][NextTwo]_vars

---------------------------------------------------------------------------
(* One projector instance and an operator who asks for resets: the calls that *)
(* reset() makes may fail.                                                    *)

InitReset ==
  /\ InitCommon
  /\ \E variant \in {"plain", "readModel"} :
       projector = [r \in Runners |-> NewProjector(variant, "single", FromStreams({"s"}))]

StepReset(r) ==
  \/ \E keepRunning \in BOOLEAN : Run(r, keepRunning)
  \/ \E fault \in {"none", "deleteStream", "readModel"} : PreTransition(r, fault)
  \/ AfterPreReset(r)
  \/ Ensure(r, "none")
  \/ MergeLoad(r, "none")
  \/ HandleEvent(r, "none")
  \/ \E fault \in {"none", "deleteStream", "readModel"} : EndPass(r, fault)
  \/ AfterPassReset(r, "none")
  \/ Release(r)
  \/ Emit(r)

NextReset ==
  \/ StepReset(1)
  \/ \E name \in EventNames : Produce("s", name)
  \/ OperatorSet(RESETTING)

SpecReset == InitReset /\ [][NextReset]_vars

---------------------------------------------------------------------------
(* One projector instance while time passes: nothing fails, and the operator *)
(* can only ask it to stop.                                                  *)

InitIdle ==
  /\ InitCommon
  /\ \E variant \in {"plain", "readModel"} :
       projector = [r \in Runners |-> NewProjector(variant, "single", FromStreams({"s"}))]

StepIdle(r) ==
  \/ \E keepRunning \in BOOLEAN : Run(r, keepRunning)
  \/ PreTransition(r, "none")
  \/ Ensure(r, "none")
  \/ MergeLoad(r, "none")
  \/ HandleEvent(r, "none")
  \/ EndPass(r, "none")
  \/ Release(r)

NextIdle ==
  \/ StepIdle(1)
  \/ \E name \in EventNames : Produce("s", name)
  \/ OperatorSet(STOPPING)
  \/ Tick

SpecIdle == InitIdle /\ [][NextIdle]_vars

\* A run that was started goes on: each awaited call returns and the code after
\* it is executed.
Continue(r) ==
  \/ PreTransition(r, "none")
  \/ Ensure(r, "none")
  \/ MergeLoad(r, "none")
  \/ HandleEvent(r, "none")
  \/ EndPass(r, "none")
  \/ Release(r)

\* The same machine without the clock, when the event loop keeps serving the run.
NextStop ==
  \/ StepIdle(1)
  \/ \E name \in EventNames : Produce("s", name)
  \/ OperatorSet(STOPPING)

SpecStop == InitIdle /\ [][NextStop]_vars /\ WF_vars(Continue(1))

---------------------------------------------------------------------------
(* One projector instance whose reads of the remote status may fail, beside  *)
(* an operator who writes the status column.                                 *)

InitStatus ==
  /\ InitCommon
  /\ \E variant \in {"plain", "readModel"} :
       projector = [r \in Runners |-> NewProjector(variant, "single", FromStreams({"s"}))]

StepStatus(r) ==
  \/ \E keepRunning \in BOOLEAN : Run(r, keepRunning)
  \/ \E fault \in {"none", "fetchProjectionStatus"} : PreTransition(r, fault)
  \/ AfterPreReset(r)
  \/ Ensure(r, "none")
  \/ MergeLoad(r, "none")
  \/ \E fault \in {"none", "fetchProjectionStatus"} : HandleEvent(r, fault)
  \/ \E fault \in {"none", "fetchProjectionStatus"} : EndPass(r, fault)
  \/ AfterPassReset(r, "none")
  \/ Release(r)

NextStatus ==
  \/ StepStatus(1)
  \/ \E name \in EventNames : Produce("s", name)
  \/ \E st \in ProjectionStatus : OperatorSet(st)

SpecStatus == InitStatus /\ [][NextStatus]_vars

---------------------------------------------------------------------------
(* The builder: init, from*, when* on a projector instance *)

\* A projector as the constructor leaves it.
Unconfigured(variant) ==
  [NewProjector(variant, "none", [all |-> FALSE, streams |-> {}])
     EXCEPT !.initSet = FALSE, !.state = UndefinedState, !.fromCalls = 0]

\* A builder call that throws: nothing but the error is left behind.
Raise(p, e) == [p EXCEPT !.error = e]

Returned(p) == [p EXCEPT !.error = "none"]

fromWasAlreadyCalled(p) == p.query.all \/ p.query.streams # {}

init(p) ==
  IF p.initSet THEN Raise(p, "alreadyInitialized")
  ELSE Returned([p EXCEPT !.initSet = TRUE, !.state = initHandler])

fromAll(p) ==
  IF fromWasAlreadyCalled(p) THEN Raise(p, "fromWasAlreadyCalled")
  ELSE Returned([p EXCEPT !.query.all = TRUE, !.fromCalls = @ + 1])

fromStream(p, streamName, matcher) ==
  IF fromWasAlreadyCalled(p) THEN Raise(p, "fromWasAlreadyCalled")
  ELSE Returned([p EXCEPT !.query.streams = @ \cup {streamName},
                          !.matchers = Spread(@, [k \in {streamName} |-> matcher]),
                          !.fromCalls = @ + 1])

fromStreams(p, streamNames, matcher) ==
  IF fromWasAlreadyCalled(p) THEN Raise(p, "fromWasAlreadyCalled")
  ELSE Returned([p EXCEPT !.query.streams = streamNames,
                          !.matchers = [k \in streamNames |-> matcher],
                          !.fromCalls = @ + 1])

whenWasAlreadyCalled(p) == p.handlerSet \/ p.handlersSet

\* A when() that only looks for earlier named handlers.
whenAfterWhenOnly(p, handlers) ==
  IF p.handlersSet THEN Raise(p, "whenWasAlreadyCalled")
  ELSE Returned([p EXCEPT !.handlersSet = TRUE, !.handlers = handlers,
                          !.handlerMode = "named"])

when(p, handlers) ==
  IF whenWasAlreadyCalled(p) THEN Raise(p, "whenWasAlreadyCalled")
  ELSE Returned([p EXCEPT !.handlersSet = TRUE, !.handlers = handlers,
                          !.handlerMode = "named"])

whenAny(p) ==
  IF whenWasAlreadyCalled(p) THEN Raise(p, "whenWasAlreadyCalled")
  ELSE Returned([p EXCEPT !.handlerSet = TRUE, !.handlerMode = "single"])

\* A builder call on runner r that leaves q behind.
Called(r, name, q) ==
  /\ projector[r].pc = "idle"
  /\ projector[r].calls < MaxCalls
  /\ projector' = [projector EXCEPT ![r] = [q EXCEPT !.calls = @ + 1, !.lastCall = name]]
  /\ UNCHANGED <<projection, eventStore, readModel, now, faults, commands, runs,
                 holder, checkpoint, handled>>

CallInit(r) == Called(r, "init", init(projector[r]))

CallFromAll(r) == Called(r, "fromAll", fromAll(projector[r]))

CallFromStream(r, streamName, matcher) ==
  Called(r, "fromStream", fromStream(projector[r], streamName, matcher))

CallFromStreams(r, streamNames, matcher) ==
  Called(r, "fromStreams", fromStreams(projector[r], streamNames, matcher))

CallWhen(r, handlers) == Called(r, "when", when(projector[r], handlers))

CallWhenAny(r) == Called(r, "whenAny", whenAny(projector[r]))

InitBuild ==
  /\ InitCommon
  /\ \E variant \in {"plain", "readModel"} :
       projector = [r \in Runners |-> Unconfigured(variant)]

StepBuild(r) ==
  \/ CallInit(r)
  \/ CallFromAll(r)
  \/ \E streamName \in Streams, matcher \in Matchers : CallFromStream(r, streamName, matcher)
  \/ \E streamNames \in SUBSET Streams, matcher \in Matchers :
       CallFromStreams(r, streamNames, matcher)
  \/ \E handlers \in {{}, Registered} : CallWhen(r, handlers)
  \/ CallWhenAny(r)
  \/ \E keepRunning \in BOOLEAN : Run(r, keepRunning)
  \/ PreTransition(r, "none")
  \/ Ensure(r, "none")
  \/ MergeLoad(r, "none")
  \/ HandleEvent(r, "none")
  \/ EndPass(r, "none")
  \/ Release(r)

NextBuild ==
  \/ StepBuild(1)
  \/ \E name \in EventNames : Produce("s", name)

SpecBuild == InitBuild /\ [][NextBuild]_vars

---------------------------------------------------------------------------
(* One read-model projector whose readModel.persist() may fail. *)

InitReadModel ==
  /\ InitCommon
  /\ \E handlerMode \in {"single", "named"} :
       projector = [r \in Runners |-> NewProjector("readModel", handlerMode, FromStreams({"s"}))]

StepReadModel(r) ==
  \/ \E keepRunning \in BOOLEAN : Run(r, keepRunning)
  \/ PreTransition(r, "none")
  \/ Ensure(r, "none")
  \/ MergeLoad(r, "none")
  \/ \E fault \in {"none", "readModel"} : HandleEvent(r, fault)
  \/ \E fault \in {"none", "readModel"} : EndPass(r, fault)
  \/ Release(r)

NextReadModel ==
  \/ StepReadModel(1)
  \/ \E name \in EventNames : Produce("s", name)

SpecReadModel == InitReadModel /\ [][NextReadModel]_vars

---------------------------------------------------------------------------
(* linkTo, called by a handler of one projector instance *)

\* The streams a handler links events to: the projection's own and another one.
LinkStreams == {ProjectionName, "l"}

\* The stream linkTo tests, creates and appends to: the plain projector uses
\* this.name in all three calls, the read-model projector its parameter.
linkTarget(p, streamName) == IF p.variant = "plain" THEN ProjectionName ELSE streamName

linkTo(w, streamName, name) ==
  LET target == linkTarget(w.p, streamName)
      es == IF hasStream(w.es, target) = FALSE THEN createStream(w.es, target) ELSE w.es
  IN  [w EXCEPT !.es = appendTo(es, target, <<name>>)]

\* linkTo(streamName, event) called by the handler in progress.
LinkTo(r, streamName) ==
  /\ projector[r].pc = "handle"
  /\ LET target == linkTarget(projector[r], streamName)
     IN  hasStream(eventStore, target) => Len(eventStore[target]) < MaxEmitted
  /\ Commit(r, linkTo(World(r, "none"), streamName, "A"), "none")
  /\ UNCHANGED runs

InitLink ==
  /\ InitCommon
  /\ \E variant \in {"plain", "readModel"} :
       projector = [r \in Runners |-> NewProjector(variant, "single", FromStreams({"s"}))]

StepLink(r) ==
  \/ \E keepRunning \in BOOLEAN : Run(r, keepRunning)
  \/ PreTransition(r, "none")
  \/ Ensure(r, "none")
  \/ MergeLoad(r, "none")
  \/ HandleEvent(r, "none")
  \/ EndPass(r, "none")
  \/ Release(r)
  \/ \E streamName \in LinkStreams : LinkTo(r, streamName)

NextLink ==
  \/ StepLink(1)
  \/ \E name \in EventNames : Produce("s", name)

SpecLink == InitLink /\ [][NextLink]_vars

---------------------------------------------------------------------------
(* One projector instance started on a stream that already holds more events *)
(* than one block, beside an operator who writes the status column.          *)

InitBlock ==
  /\ projection = NoRow
  /\ readModel = [r \in Runners |-> NewReadModel]
  /\ now = 0
  /\ faults = 0
  /\ commands = 0
  /\ runs = 0
  /\ holder = 0
  /\ checkpoint = NoCheckpoint
  /\ handled = {}
  /\ \E variant \in {"plain", "readModel"}, handlerMode \in {"single", "named"},
        names \in [1..BlockEvents -> EventNames] :
       /\ handlerMode = "single" => \A i \in 1..BlockEvents : names[i] = "A"
       /\ eventStore = [k \in Streams |-> IF k = "s" THEN names ELSE <<>>]
       /\ projector = [r \in Runners |-> NewProjector(variant, handlerMode, FromStreams({"s"}))]

StepBlock(r) ==
  \/ \E keepRunning \in BOOLEAN : Run(r, keepRunning)
  \/ PreTransition(r, "none")
  \/ AfterPreReset(r)
  \/ Ensure(r, "none")
  \/ MergeLoad(r, "none")
  \/ HandleEvent(r, "none")
  \/ EndPass(r, "none")
  \/ AfterPassReset(r, "none")
  \/ Release(r)

NextBlock ==
  \/ StepBlock(1)
  \/ \E st \in {STOPPING, DELETING, DELETING_INCL_EMITTED_EVENTS, RESETTING} : OperatorSet(st)

SpecBlock == InitBlock /\ [][NextBlock]_vars

---------------------------------------------------------------------------
(* The finally block calls releaseLock() without awaiting it: run() can     *)
(* settle while the UPDATE is on its way, and the pool applies it later.    *)

\* finally { this.releaseLock() }: run() settles before the UPDATE is applied.
ReleaseUnawaited(r) ==
  /\ projector[r].pc = "release"
  /\ LET w == World(r, "none")
     IN  Commit(r, [w EXCEPT !.p.pc = "idle",
                             !.p.releasing = TRUE,
                             !.p.result = IF w.p.caught THEN "caught" ELSE "returned"], "none")
  /\ UNCHANGED runs

\* The UPDATE of a releaseLock() still in flight reaches the control row.
ReleaseLands(r) ==
  /\ projector[r].releasing
  /\ LET w == releaseLock(World(r, "none"))
     IN  Commit(r, [w EXCEPT !.p.releasing = FALSE], "none")
  /\ UNCHANGED runs

InitRelease ==
  /\ InitCommon
  /\ \E variant \in {"plain", "readModel"} :
       projector = [r \in Runners |-> NewProjector(variant, "single", FromStreams({"s"}))]

StepRelease(r) ==
  \/ \E keepRunning \in BOOLEAN : Run(r, keepRunning)
  \/ PreTransition(r, "none")
  \/ Ensure(r, "none")
  \/ MergeLoad(r, "none")
  \/ HandleEvent(r, "none")
  \/ EndPass(r, "none")
  \/ Release(r)
  \/ ReleaseUnawaited(r)
  \/ ReleaseLands(r)

NextRelease ==
  \/ StepRelease(1)
  \/ \E name \in EventNames : Produce("s", name)
  \/ Tick

SpecRelease == InitRelease /\ [][NextRelease]_vars

---------------------------------------------------------------------------
(* stop() called from outside the loop (a signal handler) on an instance    *)
(* whose run() is waiting for one of its calls.                             *)

\* stop() is called and completes while run() of runner r waits: for the
\* status read of the first switch, for the calls before the loop, for the next
\* event of the stream, or for the calls at the end of a pass.
LocalStop(r) ==
  /\ projector[r].pc \in {"pre", "ensure", "handle", "endpass"}
  /\ ~projector[r].stopCalled
  /\ LET w == stop(World(r, "none"))
     IN  /\ w.err = "none"
         /\ Commit(r, [w EXCEPT !.p.stopCalled = TRUE], "none")
  /\ UNCHANGED runs

InitLocal ==
  /\ InitCommon
  /\ \E variant \in {"plain", "readModel"} :
       projector = [r \in Runners |-> NewProjector(variant, "single", FromStreams({"s"}))]

StepLocal(r) ==
  \/ \E keepRunning \in BOOLEAN : Run(r, keepRunning)
  \/ PreTransition(r, "none")
  \/ Ensure(r, "none")
  \/ MergeLoad(r, "none")
  \/ HandleEvent(r, "none")
  \/ EndPass(r, "none")
  \/ Release(r)
  \/ LocalStop(r)

NextLocal ==
  \/ StepLocal(1)
  \/ \E name \in EventNames : Produce("s", name)

SpecLocal == InitLocal /\ [][NextLocal]_vars

---------------------------------------------------------------------------
(* Two deployments of one projection name that differ in their from*:       *)
(* runner 1 reads streams s and t, runner 2 reads stream s only.            *)

InitQuery ==
  /\ InitCommon
  /\ projector = [r \in Runners |->
                    NewProjector("plain", "single",
                                 IF r = 1 THEN FromStreams({"s", "t"}) ELSE FromStreams({"s"}))]

NextQuery ==
  \/ \E r \in Runners : StepTwo(r)
  \/ \E stream \in Streams : Produce(stream, "A")

SpecQuery == InitQuery /\ [][NextQuery]_vars

---------------------------------------------------------------------------
(* reset(), delete() and stop() called on an instance that is not running;  *)
(* runner 1 also runs, runner 2 is another instance of the same name.       *)

\* A call of a public method on runner r that leaves the world w0 behind; the
\* error it rejects with is kept in error.
CallMethod(r, name, w0) ==
  /\ projector[r].pc = "idle"
  /\ projector[r].calls < MaxCalls
  /\ \E w \in {w0} :
       Commit(r, [w EXCEPT !.p.calls = @ + 1, !.p.lastCall = name, !.p.error = w.err], "none")
  /\ UNCHANGED runs

CallReset(r) == CallMethod(r, "reset", reset(World(r, "none")))

CallDelete(r, flag) == CallMethod(r, "delete", delete(World(r, "none"), flag))

CallStop(r) == CallMethod(r, "stop", stop(World(r, "none")))

InitCalls ==
  /\ InitCommon
  /\ \E variant \in {"plain", "readModel"} :
       projector = [r \in Runners |-> NewProjector(variant, "single", FromStreams({"s"}))]

NextCalls ==
  \/ StepIdle(1)
  \/ \E r \in Runners :
       \/ CallReset(r)
       \/ \E flag \in BOOLEAN : CallDelete(r, flag)
       \/ CallStop(r)
  \/ \E name \in EventNames : Produce("s", name)

SpecCalls == InitCalls /\ [][NextCalls]_vars

---------------------------------------------------------------------------
(* One PostgresProjector reading the streams it names or all streams, its   *)
(* handler emitting into the stream named after the projection, beside      *)
(* producers and an operator.                                                *)

InitPass ==
  /\ InitCommon
  /\ \E query \in {FromStreams({"s"}), FromAll} :
       projector = [r \in Runners |-> NewProjector("plain", "single", query)]

NextPass ==
  \/ StepBlock(1)
  \/ Emit(1)
  \/ \E stream \in Streams : Produce(stream, "A")
  \/ \E st \in {STOPPING, DELETING, RESETTING} : OperatorSet(st)

SpecPass == InitPass /\ [][NextPass]_vars

---------------------------------------------------------------------------
(* Properties *)

\* run() has come back through the finally block.
Ended(p) == p.pc = "idle" /\ p.result \in {"returned", "caught"}

\* The step is the first merge-load of runner r's current run.
FirstMergeLoad(r) == projector[r].loads = 0 /\ projector'[r].loads = 1

\* C1: a runner whose acquireLock found another runner's lease still live
\* (locked_until non-null and in the future) never afterwards, during that
\* run, writes the control row: no persist, no lock refresh, no release.
C1_LeaseLoserNeverWrites ==
  \A r \in Runners : ~(projector[r].lostLease /\ projector[r].wrote)

\* A handler invocation for event n of stream s completed, or (named
\* handlers) no handler is registered for the event's name.
Accounted(p, s, n) ==
  \/ <<s, n>> \in handled
  \/ ~p.handlerSet /\ eventStore[s][n] \notin p.handlers

\* C2: when run returns, every event of a consumed stream with a number up to
\* the runner's final streamPositions of that stream had a handler invocation
\* that completed without throwing, or has no registered handler (named
\* handlers); over every sequence of runs, also those in which a handler throws.
C2_AtLeastOnce ==
  \A r \in Runners : Ended(projector[r]) =>
    \A s \in DOMAIN projector[r].streamPositions \cap Streams :
      \A n \in 1..projector[r].streamPositions[s] : Accounted(projector[r], s, n)

\* The position the last successful persist stored for stream s; 0 when no
\* persist recorded the stream.
PersistedPosition(ck, s) ==
  IF ck.def /\ s \in DOMAIN ck.position THEN ck.position[s] ELSE 0

\* C3: after a run in which a handler or a store call failed inside the main
\* loop, the first merge-load of the next run of the same instance asks each
\* stream for the events after the position of the last successful persist
\* (after 0 for a stream no persist recorded), and the working state is the
\* state that persist stored.
C3_ResumeFromLastPersist ==
  [][\A r \in Runners :
       (projector[r].prevFailed /\ FirstMergeLoad(r))
       => /\ \A s \in DOMAIN projector'[r].request :
               projector'[r].request[s] = PersistedPosition(checkpoint, s) + 1
          /\ checkpoint.def => projector'[r].state = checkpoint.state]_vars

\* The fold of the handler over the delivered events, from initThunk's value.
Fold(delivered) == [initHandler EXCEPT !.log = delivered]

\* C4: on a run that created the control row (no failure, no operator
\* command), the handlers fold the delivered events starting from the value of
\* initThunk: from the first pass on the in-memory state is that fold, and so
\* is the state in the control row when the run has returned.
C4_FreshRunFoldsFromInit ==
  \A r \in Runners :
    (projector[r].created /\ faults = 0 /\ commands = 0)
    => /\ projector[r].pc \in {"loop", "handle", "endpass", "release"}
            => projector[r].state = Fold(projector[r].delivered)
       /\ (Ended(projector[r]) /\ projector[r].delivered # <<>>)
            => projection.state = toJSON(Fold(projector[r].delivered))

\* The run of p started with a control row and fetched the status idle or
\* running.
StartedOnRow(p) ==
  p.startRow.exists /\ p.startStatus = "none" /\ p.pc \notin {"idle", "pre"}

\* The inclusive fromNumber the row at the start of the run asks for.
FromNumber(p, s) ==
  IF s \in DOMAIN p.startRow.position THEN p.startRow.position[s] + 1 ELSE 1

\* No delivered event has a number at or below the row's position at the start.
NoRedelivery(p) ==
  \A i \in 1..Len(p.delivered) :
    p.delivered[i][1] \in DOMAIN p.startRow.position
      => p.delivered[i][2] > p.startRow.position[p.delivered[i][1]]

\* C5: when run starts with a control row holding position p and state st, the
\* first merge-load asks each stream s of p for fromNumber p[s] + 1 and each
\* queried stream absent from p for fromNumber 1, the handlers start from st,
\* and no event with a number at or below p[s] is delivered again.
C5_ResumeFromRow ==
  [][\A r \in Runners :
       /\ (StartedOnRow(projector'[r]) /\ FirstMergeLoad(r))
          => /\ DOMAIN projector'[r].request =
                  DOMAIN projector'[r].startRow.position \cup projector'[r].query.streams
             /\ \A s \in DOMAIN projector'[r].request :
                  projector'[r].request[s] = FromNumber(projector'[r], s)
             /\ projector'[r].state = projector'[r].startRow.state
       /\ StartedOnRow(projector'[r]) => NoRedelivery(projector'[r])]_vars

\* C6: once run has executed acquireLock, every way the run ends leaves the
\* control row, if it still exists, with locked_until null and status idle.
C6_ReleaseAlwaysRuns ==
  [][\A r \in Runners :
       (projector[r].pc # "idle" /\ projector'[r].pc = "idle"
        /\ projector'[r].calledAcquire /\ projection'.exists)
       => projection'.locked_until = Null /\ projection'.status = IDLE]_vars

\* C7: when the status fetched at the start of run is stopping, run does not
\* acquire the lock and issues no merge-load.
C7_StoppingAtStartReturns ==
  \A r \in Runners : projector[r].startStatus = STOPPING =>
     ~projector[r].calledAcquire /\ projector[r].loads = 0

\* C8: when run has observed the status deleting or deleting-incl-emitted (no
\* call failed), the control row does not exist when run returns, and for
\* deleting-incl-emitted on the plain projector neither does the stream of
\* emitted events.
C8_DeletedRowStaysGone ==
  \A r \in Runners :
    (Ended(projector[r]) /\ faults = 0
     /\ projector[r].observedDelete \in {DELETING, DELETING_INCL_EMITTED_EVENTS})
    => /\ ~projection.exists
       /\ (projector[r].variant = "plain"
           /\ projector[r].observedDelete = DELETING_INCL_EMITTED_EVENTS)
          => ~hasStream(eventStore, ProjectionName)

\* C9: between resets and deletes, every checkpoint write stores for each
\* stream a position at or above the one the previous checkpoint write stored,
\* whether the runs are sequential or overlap.
C9_CheckpointsNeverDecrease ==
  [][(checkpoint.def /\ checkpoint'.def) =>
       \A s \in DOMAIN checkpoint.position :
          /\ s \in DOMAIN checkpoint'.position
          /\ checkpoint'.position[s] >= checkpoint.position[s]]_vars

\* What reset() leaves behind.
ResetPost(p, row) ==
  /\ p.streamPositions = EmptyMap
  /\ p.state = initHandler
  /\ row.exists
  /\ row.status = IDLE
  /\ row.position = EmptyMap
  /\ row.state = toJSON(initHandler)

\* C10: after reset() returns without error (initThunk set) the in-memory
\* streamPositions is empty, the in-memory state is initThunk(), and the
\* control row has status idle, position {} and that initial state; a failing
\* deletion of the emitted-events stream does not make reset fail.
C10_ResetPostcondition ==
  [][\A r \in Runners :
       (~projector[r].didReset /\ projector'[r].didReset)
       => ResetPost(projector'[r], projection')]_vars

\* C10: reset() has returned although the deletion of the emitted-events
\* stream failed (the stream is still there).
C10_ResetReturnedStreamKept ==
  \E r \in Runners :
    /\ projector[r].didReset
    /\ projector[r].pc \in {"preReset", "passReset"}
    /\ hasStream(eventStore, ProjectionName)
    /\ ResetPost(projector[r], projection)

\* C11: when run(true) finds the status resetting, reset() runs, then
\* startAgain() sets the row's status to running with a fresh locked_until and
\* the run goes on to the main loop, whose first merge-load asks every queried
\* stream for fromNumber 1.
C11_ResetThenStartAgain ==
  [][\A r \in Runners :
       /\ (projector[r].pc = "preReset" /\ projector[r].keepRunning
           /\ projector'[r].pc # "preReset")
          => /\ projector'[r].pc = "ensure"
             /\ projection'.status = RUNNING
             /\ projection'.locked_until = createLockUntil(now)
       /\ (projector'[r].startStatus = RESETTING /\ projector'[r].keepRunning
           /\ FirstMergeLoad(r))
          => \A s \in projector'[r].query.streams :
               s \in DOMAIN projector'[r].request /\ projector'[r].request[s] = 1]_vars

\* The runner is about to release the lock and the control row of its name
\* has been deleted.
RowGoneInRun(r) == projector[r].pc = "release" /\ ~projection.exists

\* C14: every operation of a runner that updates or deletes the control row
\* (persist, reset, delete, startAgain, acquireLock, lock refresh, releaseLock)
\* raises projectionNotFound when the row of that name no longer exists.
C14_ZeroRowsRaiseNotFound ==
  \A r \in Runners : RowGoneInRun(r) =>
    /\ persist(World(r, "none")).err = "projectionNotFound"
    /\ reset(World(r, "none")).err = "projectionNotFound"
    /\ delete(World(r, "none"), FALSE).err = "projectionNotFound"
    /\ startAgain(World(r, "none")).err = "projectionNotFound"
    /\ acquireLock(World(r, "none")).err = "projectionNotFound"
    /\ updateLock(World(r, "none")).err = "projectionNotFound"
    /\ releaseLock(World(r, "none")).err = "projectionNotFound"

\* C20: when the read-model projector's run observes the status deleting (not
\* deleting-incl-emitted; no call fails), it removes the control row without
\* calling readModel.delete().
C20_DeletingKeepsReadModel ==
  \A r \in Runners :
    (projector[r].variant = "readModel" /\ faults = 0
     /\ projector[r].observedDelete = DELETING)
    => ~readModel[r].deleted

\* The runner is between acquireLock and releaseLock.
HoldsLock(p) == p.pc \in {"loop", "handle", "endpass", "release"}

StatusReadFailed == faults' = faults + 1

\* C13: whenever fetchProjectionStatus fails, the runner treats the status as
\* running: the failed read triggers no stop, delete or reset, does not set
\* isStopped, and a run(true) goes on with the next pass.
C13_FailedStatusReadIsRunning ==
  [][\A r \in Runners :
       (StatusReadFailed /\ projector[r].pc # "idle")
       => /\ projector'[r].isStopped = projector[r].isStopped
          /\ ~projector'[r].didReset
          /\ projector'[r].observedDelete = projector[r].observedDelete
          /\ projector'[r].startStatus = projector[r].startStatus
          /\ projection'.exists = projection.exists
          /\ projection.exists => projection'.status = projection.status
          /\ projector[r].pc = "pre" => projector'[r].pc = "ensure"
          /\ projector[r].pc = "handle" => projector'[r].pc \in {"handle", "endpass"}
          /\ (projector[r].pc = "endpass" /\ loopAgain(projector[r]))
               => projector'[r].pc = "loop"]_vars

\* C13: a status read of this run(true) has failed and the runner, not
\* stopped, is at the start of a later pass.
C13_WentOnAfterFailedRead ==
  \E r \in Runners :
    /\ faults = 1
    /\ runs = 1
    /\ projector[r].keepRunning
    /\ ~projector[r].isStopped
    /\ projector[r].pc = "loop"
    /\ projector[r].loads >= 1

\* The step is a builder call on runner r.
BuilderCall(r) == projector'[r].calls = projector[r].calls + 1

\* q is p but for the record of the last call.
SameButCall(p, q) ==
  [q EXCEPT !.calls = p.calls, !.lastCall = p.lastCall, !.error = p.error,
            !.result = p.result] = p

\* C15: after any one of fromAll, fromStream or fromStreams has returned
\* without error, every later call of one of them raises the
\* from-already-called error and leaves query.all, query.streams and the
\* matchers unchanged, for all arguments of both calls (an empty list passed
\* to fromStreams included).
C15_FromOnlyOnce ==
  [][\A r \in Runners :
       (BuilderCall(r) /\ projector[r].fromCalls >= 1
        /\ projector'[r].lastCall \in {"fromAll", "fromStream", "fromStreams"})
       => /\ projector'[r].error = "fromWasAlreadyCalled"
          /\ projector'[r].query = projector[r].query
          /\ projector'[r].matchers = projector[r].matchers]_vars

\* C16: a second init raises alreadyInitialized (the first having set the
\* state to the thunk's value), every when or whenAny after an earlier when or
\* whenAny raises whenWasAlreadyCalled, a failed call changes nothing, and the
\* registry never holds both a catch-all handler and named handlers.
C16_InitAndWhenOnlyOnce ==
  [][\A r \in Runners :
       /\ BuilderCall(r) =>
            /\ (projector'[r].lastCall = "init" /\ projector[r].initSet)
                 => /\ projector'[r].error = "alreadyInitialized"
                    /\ SameButCall(projector[r], projector'[r])
            /\ (projector'[r].lastCall = "init" /\ ~projector[r].initSet)
                 => /\ projector'[r].error = "none"
                    /\ projector'[r].initSet
                    /\ projector'[r].state = initHandler
            /\ (projector'[r].lastCall \in {"when", "whenAny"}
                /\ (projector[r].handlerSet \/ projector[r].handlersSet))
                 => /\ projector'[r].error = "whenWasAlreadyCalled"
                    /\ SameButCall(projector[r], projector'[r])
       /\ ~(projector'[r].handlerSet /\ projector'[r].handlersSet)]_vars

\* C16: when() was called after whenAny() and was refused.
C16_WhenRefusedAfterWhenAny ==
  \E r \in Runners :
    /\ projector[r].lastCall = "when"
    /\ projector[r].error = "whenWasAlreadyCalled"
    /\ projector[r].handlerSet
    /\ ~projector[r].handlersSet

\* A run() that threw at its head: nothing but the error is left behind.
RunRefused(r, e) ==
  /\ projector'[r].result = "rejected"
  /\ projector'[r].error = e
  /\ projector'[r].pc = "idle"
  /\ SameButCall(projector[r], projector'[r])
  /\ projection' = projection
  /\ eventStore' = eventStore
  /\ readModel' = readModel

\* C17: run fails with noHandler when neither a catch-all nor named handlers
\* are set, and with stateWasNotInitialised when the state is unset; both
\* before any status fetch, control-row query or event-store call, leaving the
\* runner's state and the control row unchanged.
C17_PreflightErrors ==
  [][\A r \in Runners, keepRunning \in BOOLEAN :
       Run(r, keepRunning) =>
         /\ (~projector[r].handlerSet /\ ~projector[r].handlersSet)
              => RunRefused(r, "noHandler")
         /\ ((projector[r].handlerSet \/ projector[r].handlersSet)
             /\ ~projector[r].state.def)
              => RunRefused(r, "stateWasNotInitialised")]_vars

\* C17: run() was refused on a projector that has a handler and no state.
C17_RefusedWithoutState ==
  \E r \in Runners :
    /\ projector[r].lastCall = "run"
    /\ projector[r].result = "rejected"
    /\ projector[r].error = "stateWasNotInitialised"
    /\ projector[r].handlerSet \/ projector[r].handlersSet
    /\ ~projector[r].state.def
    /\ ~projection.exists

\* C18: run on a projector on which no from* was called (query.all false and
\* query.streams empty) fails with a configuration error: it creates no
\* control row, does not acquire the lock, issues no merge-load and does not
\* return normally.
C18_RunWithoutFromFails ==
  \A r \in Runners :
    (~projector[r].query.all /\ projector[r].query.streams = {})
    => /\ ~projector[r].created
       /\ ~projector[r].calledAcquire
       /\ projector[r].loads = 0
       /\ ~Ended(projector[r])

\* Every handled event the row's position covers has been externalised by a
\* readModel.persist() that completed after the event was handled.
CoveredIsExternalised(row, rm) ==
  \A e \in handled :
    (e[1] \in DOMAIN row.position /\ e[2] <= row.position[e[1]]) => e \in rm.persisted

\* The order inside the read-model projector's persist: a checkpoint step has
\* called readModel.persist() on everything handled so far, a failed
\* readModel.persist() leaves the row as it was, and the handled events the row
\* covers are externalised (r is the runner whose writes the row holds).
ReadModelPersistOrder ==
  [][\A r \in Runners :
       (projector[r].variant = "readModel" /\ holder' = r) =>
         /\ (checkpoint' # checkpoint /\ checkpoint'.def)
              => readModel'[r].persisted = handled'
         /\ faults' = faults + 1 => projection' = projection
         /\ projection'.exists => CoveredIsExternalised(projection', readModel'[r])]_vars

\* C19: in the read-model projector the control row's position never covers an
\* event of a consumed stream for which readModel.persist() has not completed
\* after the event was handled (events without a registered handler aside); r
\* is the runner whose writes the row holds.
C19_ReadModelPersistedFirst ==
  \A r \in Runners :
    (projector[r].variant = "readModel" /\ holder = r /\ projection.exists) =>
      \A s \in DOMAIN projection.position \cap Streams :
        \A n \in 1..projection.position[s] :
          n <= Len(eventStore[s]) =>
            \/ <<s, n>> \in readModel[r].persisted
            \/ ~projector[r].handlerSet /\ eventStore[s][n] \notin projector[r].handlers

\* The events of a stream, none when the event store does not have it.
EventsOf(es, name) == IF hasStream(es, name) THEN es[name] ELSE <<>>

\* C21: linkTo(streamName, event), on the plain and on the read-model
\* projector, appends the event to the stream named streamName (created first
\* when the event store does not have it) and neither creates nor appends to
\* any other stream.
C21_LinkToNamedStream ==
  [][\A r \in Runners, streamName \in LinkStreams :
       LinkTo(r, streamName) =>
         /\ hasStream(eventStore', streamName)
         /\ eventStore'[streamName] = EventsOf(eventStore, streamName) \o <<"A">>
         /\ \A k \in (DOMAIN eventStore') \ {streamName} :
              hasStream(eventStore, k) /\ eventStore'[k] = eventStore[k]]_vars

\* C22: during a pass, in catch-all and in named-handler mode alike, when the
\* number of events consumed since the last checkpoint reaches persistBlockSize
\* the runner persists and resets eventCounter to 0 before it consumes the next
\* event; eventCounter never exceeds persistBlockSize.
C22_BlockCheckpoint ==
  [][\A r \in Runners :
       HandleEvent(r, "none") =>
         /\ projector'[r].eventCounter <= persistBlockSize
         /\ (projector[r].eventCounter + 1 = persistBlockSize /\ projector'[r].pc = "handle")
            => /\ projector'[r].eventCounter = 0
               /\ projection'.exists
               /\ projection'.position = projector'[r].streamPositions]_vars

\* The step is an iteration of runner r whose block check reads a remote status
\* other than idle and running.
BoundaryStop(r) ==
  /\ HandleEvent(r, "none")
  /\ projector[r].eventCounter + 1 = persistBlockSize
  /\ progressEvent(projector[r], Head(projector[r].pending).name) => projector[r].handlerSet
  /\ projection.exists
  /\ projection.status \notin {IDLE, RUNNING}

\* C23: when the block check observes a remote status other than idle or
\* running, the runner sets isStopped and handles no further event of that pass
\* (the checkpoint of the block is in the row); if the status is stopping (and
\* still is at the end of the pass), the run ends with the row's position and
\* state those of the block boundary and status idle.
C23_BlockBoundaryStop ==
  [][\A r \in Runners :
       /\ BoundaryStop(r)
          => /\ projector'[r].isStopped
             /\ projector'[r].status = projection.status
             /\ projector'[r].pc = "endpass"
             /\ projector'[r].pending = <<>>
             /\ projection'.position = projector'[r].streamPositions
             /\ projection'.state = toJSON(projector'[r].state)
       /\ (EndPass(r, "none") /\ projector[r].status = STOPPING /\ projection.status = STOPPING)
          => /\ projector'[r].pc = "release"
             /\ projector'[r].delivered = projector[r].delivered
             /\ projection'.position = projector[r].streamPositions
             /\ projection'.position = checkpoint.position
             /\ projection'.state = checkpoint.state
             /\ projection'.status = IDLE
       /\ (Release(r) /\ projection.exists)
          => /\ projection'.position = projection.position
             /\ projection'.state = projection.state
             /\ projection'.status = IDLE]_vars

\* C23: a run that consumed two of three events has ended after the block check
\* saw stopping: the row holds the block's position and status idle.
C23_StoppedAtBlock ==
  \E r \in Runners :
    /\ Ended(projector[r])
    /\ runs = 1
    /\ commands = 1
    /\ projector[r].isStopped
    /\ Len(projector[r].delivered) = persistBlockSize
    /\ Len(eventStore["s"]) > persistBlockSize
    /\ projection.exists
    /\ projection.position = [k \in {"s"} |-> persistBlockSize]
    /\ projection.state.log = projector[r].delivered
    /\ projection.status = IDLE

\* C28: the release write of a run is applied before run() settles, so it is
\* never applied after the acquireLock of the next run of the same instance:
\* between that acquireLock and the end of the run the lease in the row is not
\* null.
C28_ReleaseBeforeReturn ==
  \A r \in Runners :
    (HoldsLock(projector[r]) /\ projection.exists) => projection.locked_until # Null

\* The remote status is stopping while run(true) of runner r is in its loop.
StoppingInLoop(r) ==
  /\ projector[r].keepRunning
  /\ projector[r].pc \in {"loop", "handle", "endpass"}
  /\ projection.exists
  /\ projection.status = STOPPING

\* run() of runner r has returned and the row is idle and unlocked.
ReturnedIdle(r) ==
  /\ Ended(projector[r])
  /\ projection.exists
  /\ projection.status = IDLE
  /\ projection.locked_until = Null

C25_LocalStopEndsRun ==
  [][\A r \in Runners :
       (projector[r].keepRunning /\ projector[r].stopCalled)
       => /\ ~MergeLoad(r, "none")
          /\ HandleEvent(r, "none") => projector'[r].pc = "endpass"]_vars

\* The step is an iteration of runner r (named handlers) over an event whose
\* name has no registered handler.
Unhandled(r) ==
  /\ HandleEvent(r, "none")
  /\ ~progressEvent(projector[r], Head(projector[r].pending).name)

\* C27: in named-handler mode, consuming an event whose name has no registered
\* handler sets streamPositions[event.metadata.stream] to event.no, increments
\* eventCounter and runs the block-size/status check (at persistBlockSize:
\* persist, eventCounter 0, status re-read, isStopped when it is neither idle
\* nor running); the state is unchanged and no handler is invoked.
C27_UnhandledEventAdvances ==
  [][\A r \in Runners :
       Unhandled(r) =>
         LET p == projector[r]
             q == projector'[r]
             e == Head(p.pending)
         IN  /\ q.streamPositions = advance(p.streamPositions, e)
             /\ q.state = p.state
             /\ q.delivered = p.delivered
             /\ handled' = handled
             /\ IF p.eventCounter + 1 = persistBlockSize
                THEN /\ q.eventCounter = 0
                     /\ projection'.position = q.streamPositions
                     /\ projection'.state = toJSON(q.state)
                     /\ checkpoint'.position = q.streamPositions
                     /\ q.status = projection.status
                     /\ q.isStopped = (p.isStopped \/ projection.status \notin {IDLE, RUNNING})
                ELSE /\ q.eventCounter = p.eventCounter + 1
                     /\ projection' = projection
                     /\ checkpoint' = checkpoint
                     /\ q.isStopped = p.isStopped]_vars

\* C27: a block was closed by an event without a handler: the row covers
\* persistBlockSize events of which fewer were handed to a handler, and the
\* pass goes on.
C27_BlockClosedByUnhandled ==
  \E r \in Runners :
    /\ projector[r].handlersSet
    /\ projector[r].pc = "handle"
    /\ runs = 1
    /\ projector[r].eventCounter = 0
    /\ Len(projector[r].delivered) < persistBlockSize
    /\ projection.exists
    /\ projection.position = [k \in {"s"} |-> persistBlockSize]
    /\ checkpoint.def

\* C29: for a projector configured with fromStream or fromStreams, every
\* merge-load request names only streams of the configured set, whatever keys
\* the position stored in the control row has.
C29_RequestsOnlyConfigured ==
  \A r \in Runners :
    ~projector[r].query.all => DOMAIN projector[r].request \subseteq projector[r].query.streams

\* The step is a call of reset(), delete() or stop() on runner r that raises
\* projectionNotFound.
NotFoundRaised(r) ==
  /\ projector'[r].calls = projector[r].calls + 1
  /\ projector'[r].lastCall \in {"reset", "delete", "stop"}
  /\ projector'[r].error = "projectionNotFound"

\* C30: when reset(), delete() or stop() raises projectionNotFound because the
\* control row is absent, the runner's in-memory streamPositions, state and
\* isStopped are what they were before the call.
C30_NotFoundLeavesMemory ==
  [][\A r \in Runners :
       NotFoundRaised(r) =>
         /\ projector'[r].streamPositions = projector[r].streamPositions
         /\ projector'[r].state = projector[r].state
         /\ projector'[r].isStopped = projector[r].isStopped]_vars

\* The step of runner r ends a pass in which events were consumed since the
\* last checkpoint: the sequence is drained, eventCounter > 0, and the loop
\* condition is reached without an error.
PassEnds(r) ==
  /\ EndPass(r, "none")
  /\ projector[r].eventCounter > 0
  /\ ~projector'[r].caught
  /\ projector'[r].pc \in {"loop", "release"}

RowEqualsMemory(r) ==
  /\ projection'.exists
  /\ projection'.position = projector'[r].streamPositions

\* C26 as stated: for every pass with eventCounter > 0 when the event sequence
\* drains, the position stored in the control row at the end of that pass
\* equals the in-memory streamPositions at the end of that pass, key for key.
C26_RowEqualsMemoryAlways ==
  [][\A r \in Runners : PassEnds(r) => RowEqualsMemory(r)]_vars

\* No delete or reset command is read in the second switch of the pass, and a
\* projection reading all streams knows every stream of the event store.
NoCommandNoNewStream(r) ==
  /\ projection.status \in {IDLE, RUNNING, STOPPING}
  /\ projector[r].query.all =>
       fetchAllStreamNames(eventStore) \subseteq DOMAIN projector[r].streamPositions

\* C26: for every pass with eventCounter > 0 when the event sequence drains, in
\* which the status read at the end is not a delete or reset command and no
\* stream was created for a projection reading all streams, the position
\* stored in the control row at the end of that pass equals the in-memory
\* streamPositions at the end of that pass, key for key.
C26_RowEqualsMemory ==
  [][\A r \in Runners : PassEnds(r) /\ NoCommandNoNewStream(r) => RowEqualsMemory(r)]_vars

\* C26: a pass that consumed an event has ended and the row holds the in-memory
\* positions, one of them past the start of its stream.
C26_PassPersisted ==
  \E r \in Runners :
    /\ projector[r].pc \in {"loop", "release"}
    /\ projector[r].eventCounter = 0
    /\ projection.exists
    /\ projection.position = projector[r].streamPositions
    /\ \E k \in DOMAIN projection.position : projection.position[k] > 0

====
